---------------------------- MODULE Spec2Model ----------------------------
(***************************************************************************)
(* A model of the shape rasteriser of jlaua2/Geometry: the Display canvas  *)
(* (initialize, getMaxXY, drawPixel, getPixel, clearScreen, screenShot)    *)
(* and the draw methods of Rectangle, Triangle and Circle.                 *)
(***************************************************************************)
EXTENDS Integers, Sequences, FiniteSets, TLC

(***************************************************************************)
(* Bounds of the model.                                                    *)
(***************************************************************************)
MaxX == 3          \* widest canvas
MaxY == 3          \* tallest canvas
MaxR == 1          \* largest circle radius tried (the smallest is -1)
MaxOps == 2        \* operations in a behaviour of SpecPixel and of SpecSeq

(***************************************************************************)
(* Colours: the palette, and the errors.                                   *)
(***************************************************************************)
ColorMap ==
  [red |-> <<255, 0, 0>>, green |-> <<0, 255, 0>>, blue |-> <<0, 0, 255>>,
   yellow |-> <<255, 255, 0>>, orange |-> <<255, 164, 0>>,
   purple |-> <<128, 0, 128>>, brown |-> <<165, 42, 42>>,
   black |-> <<0, 0, 0>>, white |-> <<255, 255, 255>>]

\* ColorMap[name] of Go: the zero RGB for a name that is no key
RGBOf(name) == IF name \in DOMAIN ColorMap THEN ColorMap[name] ELSE <<0, 0, 0>>

errOutOfBounds == "errOutOfBounds"
invalidColor == "invalidColor"
fileError == "fileError"
nil == "nil"

colorUnknown(c) == c \notin DOMAIN ColorMap

Point(x, y) == [x |-> x, y |-> y]

\* the element of a one-element set: Only({F(v) : v \in {e}}) is F(e), with e
\* evaluated once
Only(S) == CHOOSE v \in S : TRUE

(***************************************************************************)
(* The Display.  A display value is a record [maxX, maxY, matrix], matrix  *)
(* indexed [x][y] as in the source.                                        *)
(***************************************************************************)
initialize(x, y) ==
  [maxX |-> x, maxY |-> y,
   matrix |-> [i \in 0..(x - 1) |-> [j \in 0..(y - 1) |-> "white"]]]

getMaxXY(d) == <<d.maxX, d.maxY>>

outOfBounds(p, d) ==
  LET xMax == getMaxXY(d)[1]
      yMax == getMaxXY(d)[2]
  IN p.x < 0 \/ p.x >= xMax \/ p.y < 0 \/ p.y >= yMax

\* a drawPixel that keeps the first colour written to a cell
drawPixelOnce(d, x, y, c) ==
  IF x < 0 \/ y < 0 \/ x >= d.maxX \/ y >= d.maxY
    THEN [err |-> errOutOfBounds, d |-> d]
  ELSE IF colorUnknown(c)
    THEN [err |-> invalidColor, d |-> d]
  ELSE [err |-> nil,
        d |-> IF d.matrix[x][y] = "white" THEN [d EXCEPT !.matrix[x][y] = c] ELSE d]

\* a drawPixel without the colour check
drawPixelUnchecked(d, x, y, c) ==
  IF x < 0 \/ y < 0 \/ x >= d.maxX \/ y >= d.maxY
    THEN [err |-> errOutOfBounds, d |-> d]
  ELSE [err |-> nil, d |-> [d EXCEPT !.matrix[x][y] = c]]

drawPixel(d, x, y, c) ==
  IF x < 0 \/ y < 0 \/ x >= d.maxX \/ y >= d.maxY
    THEN [err |-> errOutOfBounds, d |-> d]
  ELSE IF colorUnknown(c)
    THEN [err |-> invalidColor, d |-> d]
  ELSE [err |-> nil, d |-> [d EXCEPT !.matrix[x][y] = c]]

getPixel(d, x, y) ==
  IF x < 0 \/ y < 0 \/ x >= d.maxX \/ y >= d.maxY
    THEN [c |-> "", err |-> errOutOfBounds]
  ELSE IF colorUnknown(d.matrix[x][y])
    THEN [c |-> d.matrix[x][y], err |-> invalidColor]
  ELSE [c |-> d.matrix[x][y], err |-> nil]

clearScreen(d) ==
  [d EXCEPT !.matrix = [i \in DOMAIN d.matrix |-> [j \in DOMAIN d.matrix[i] |-> "white"]]]


(***************************************************************************)
(* screenShot.  The file is the sequence of the strings written to it, one *)
(* token per formatted value or separator.  failAt numbers the call that   *)
(* fails: 0 is os.Create, k >= 1 the k-th Fprint call; beyond the last     *)
(* call nothing fails.                                                     *)
(***************************************************************************)
NoFile == <<"<no file>">>

\* a header with the dimensions in the other order
HeaderWriteSwapped(d) ==
  <<"P3", "\n", ToString(d.maxY), " ", ToString(d.maxX), "\n", "255", "\n">>

HeaderWrite(d) ==
  <<"P3", "\n", ToString(d.maxX), " ", ToString(d.maxY), "\n", "255", "\n">>

PixelWrite(d, x, y) ==
  LET rgb == RGBOf(d.matrix[x][y])
  IN <<ToString(rgb[1]), " ", ToString(rgb[2]), " ", ToString(rgb[3])>>

\* the Fprint calls of row y from column x on, in order
RECURSIVE RowWrites(_, _, _)
RowWrites(d, y, x) ==
  IF x >= d.maxX THEN << <<"\n">> >>
  ELSE (IF x > 0 THEN << <<" ">> >> ELSE <<>>)
       \o << PixelWrite(d, x, y) >> \o RowWrites(d, y, x + 1)

RECURSIVE BodyWrites(_, _)
BodyWrites(d, y) ==
  IF y >= d.maxY THEN <<>> ELSE RowWrites(d, y, 0) \o BodyWrites(d, y + 1)

Writes(d) == << HeaderWrite(d) >> \o BodyWrites(d, 0)

RECURSIVE Flatten(_, _)
Flatten(ws, n) == IF n = 0 THEN <<>> ELSE Flatten(ws, n - 1) \o ws[n]

screenShot(d, failAt) ==
  LET ws == Writes(d)
  IN IF failAt = 0 THEN [err |-> fileError, file |-> NoFile]
     ELSE IF failAt <= Len(ws) THEN [err |-> fileError, file |-> Flatten(ws, failAt - 1)]
     ELSE [err |-> nil, file |-> Flatten(ws, Len(ws))]

(***************************************************************************)
(* float64 arithmetic of interpolate.  A float64 is a sign and a magnitude *)
(* in units of 2^-60, held as Limbs limbs of 15 bits, most significant     *)
(* first; the first limb is the integer part.  Every result is rounded to  *)
(* MantBits significant bits, ties to even, as IEEE 754 binary64 does.     *)
(* Exact for integers below Base and divisors up to 64.                    *)
(***************************************************************************)
Base == 32768
Limbs == 5
LimbBits == 15
MantBits == 53

RECURSIVE Pow2(_)
Pow2(k) == IF k = 0 THEN 1 ELSE 2 * Pow2(k - 1)

Abs(v) == IF v < 0 THEN -v ELSE v

FromNat(v) == <<v, 0, 0, 0, 0>>

RECURSIVE AddFrom(_, _, _, _)
AddFrom(a, b, i, carry) ==
  IF i = 0 THEN <<>>
  ELSE Append(AddFrom(a, b, i - 1, (a[i] + b[i] + carry) \div Base),
              (a[i] + b[i] + carry) % Base)

AddMag(a, b) == AddFrom(a, b, Limbs, 0)

RECURSIVE SubFrom(_, _, _, _)
SubFrom(a, b, i, borrow) ==
  IF i = 0 THEN <<>>
  ELSE Append(SubFrom(a, b, i - 1, IF a[i] - b[i] - borrow < 0 THEN 1 ELSE 0),
              (a[i] - b[i] - borrow + Base) % Base)

\* a - b for a >= b
SubMag(a, b) == SubFrom(a, b, Limbs, 0)

LessMag(a, b) ==
  \E i \in 1..Limbs : a[i] < b[i] /\ \A j \in 1..(i - 1) : a[j] = b[j]

BitLen(x) ==
  IF x = 0 THEN 0 ELSE CHOOSE k \in 1..LimbBits : Pow2(k - 1) <= x /\ x < Pow2(k)

\* the number of significant bits of a magnitude
MagBits(a) ==
  IF \A i \in 1..Limbs : a[i] = 0 THEN 0
  ELSE LET t == CHOOSE i \in 1..Limbs : a[i] # 0 /\ \A j \in 1..(i - 1) : a[j] = 0
       IN LimbBits * (Limbs - t) + BitLen(a[t])

\* round to MantBits significant bits, ties to even; sticky: the exact value
\* has nonzero bits below the last limb.  The bits dropped lie in the last limb.
RoundMag(a, sticky) ==
  LET u == MagBits(a) - MantBits
  IN IF u <= 0 THEN a
     ELSE LET unit == Pow2(u)
              low == a[Limbs]
              rem == low % unit
              odd == (low \div unit) % 2 = 1
              up == rem > unit \div 2 \/ (rem = unit \div 2 /\ (sticky \/ odd))
              kept == [a EXCEPT ![Limbs] = low - rem]
          IN IF up THEN AddMag(kept, <<0, 0, 0, 0, unit>>) ELSE kept

F64(neg, mag) == [neg |-> neg, mag |-> mag]

\* float64(v)
FromInt(v) == F64(v < 0, FromNat(Abs(v)))

RECURSIVE DivFrom(_, _, _)
DivFrom(num, n, i) ==
  IF i = 0 THEN [q |-> <<>>, r |-> 0]
  ELSE LET p == DivFrom(num, n, i - 1)
       IN [q |-> Append(p.q, (p.r * Base + num[i]) \div n),
           r |-> (p.r * Base + num[i]) % n]

\* float64(p) / float64(n) for n > 0
FDiv(p, n) ==
  LET d == DivFrom(FromNat(Abs(p)), n, Limbs)
  IN F64(p < 0, RoundMag(d.q, d.r # 0))

\* x + y
FAdd(x, y) ==
  IF x.neg = y.neg THEN F64(x.neg, RoundMag(AddMag(x.mag, y.mag), FALSE))
  ELSE IF LessMag(x.mag, y.mag) THEN F64(y.neg, RoundMag(SubMag(y.mag, x.mag), FALSE))
  ELSE F64(x.neg, RoundMag(SubMag(x.mag, y.mag), FALSE))

\* int(x): truncation toward zero
FInt(x) == IF x.neg THEN -x.mag[1] ELSE x.mag[1]

(***************************************************************************)
(* interpolate.  With l1 = l0 the slope a is +Inf, -Inf or NaN, and is     *)
(* added to d only after the single value int(d0) was appended.            *)
(***************************************************************************)
RECURSIVE InterpolateLoop(_, _, _)
InterpolateLoop(d, a, count) ==
  IF count <= 0 THEN <<>>
  ELSE <<FInt(d)>> \o InterpolateLoop(FAdd(d, a), a, count - 1)

\* the loop over the rows and columns of the widest and tallest canvas, computed once
InterpolateTable ==
  [n \in 1..MaxY, d0 \in 0..MaxX, d1 \in 0..MaxX |->
     InterpolateLoop(FromInt(d0), FDiv(d1 - d0, n), n + 1)]

interpolate(l0, d0, l1, d1) ==
  IF l1 - l0 + 1 <= 0 THEN <<>>
  ELSE IF l1 = l0 THEN <<d0>>
  ELSE IF <<l1 - l0, d0, d1>> \in DOMAIN InterpolateTable
    THEN InterpolateTable[l1 - l0, d0, d1]
  ELSE InterpolateLoop(FromInt(d0), FDiv(d1 - d0, l1 - l0), l1 - l0 + 1)

(***************************************************************************)
(* The result of a draw: the error returned, the display afterwards, panic *)
(* (a run-time panic ended the program inside draw) and calls, the points  *)
(* drawPixel was called with, in order.                                    *)
(***************************************************************************)
Result(err, d, panic, calls) == [err |-> err, d |-> d, panic |-> panic, calls |-> calls]

\* drawPixel on pixels[i], pixels[i+1], ...; with stopOnErr the first error is returned
RECURSIVE DrawFrom(_, _, _, _, _)
DrawFrom(d, pixels, c, i, stopOnErr) ==
  IF i > Len(pixels) THEN [err |-> nil, d |-> d, n |-> Len(pixels)]
  ELSE Only({IF stopOnErr /\ r.err # nil THEN [err |-> r.err, d |-> r.d, n |-> i]
              ELSE DrawFrom(r.d, pixels, c, i + 1, stopOnErr) :
              r \in {drawPixel(d, pixels[i].x, pixels[i].y, c)}})

(***************************************************************************)
(* Rectangle.draw                                                          *)
(***************************************************************************)
\* the points of loops with inclusive upper bounds
RectPixelsInclusive(r) ==
  LET w == r.ur.x - r.ll.x + 1
      h == r.ur.y - r.ll.y + 1
  IN IF w <= 0 \/ h <= 0 THEN <<>>
     ELSE [k \in 1..(w * h) |-> Point(r.ll.x + ((k - 1) \div h), r.ll.y + ((k - 1) % h))]

\* the points of the nested loops, x outer, y inner
RectPixels(r) ==
  LET w == r.ur.x - r.ll.x
      h == r.ur.y - r.ll.y
  IN IF w <= 0 \/ h <= 0 THEN <<>>
     ELSE [k \in 1..(w * h) |-> Point(r.ll.x + ((k - 1) \div h), r.ll.y + ((k - 1) % h))]

RectangleDraw(r, d) ==
  IF outOfBounds(r.ll, d) \/ outOfBounds(r.ur, d) THEN Result(errOutOfBounds, d, FALSE, <<>>)
  ELSE IF colorUnknown(r.c) THEN Result(invalidColor, d, FALSE, <<>>)
  ELSE Only({Result(f.err, f.d, FALSE, SubSeq(RectPixels(r), 1, f.n)) :
              f \in {DrawFrom(d, RectPixels(r), r.c, 1, TRUE)}})

(***************************************************************************)
(* Triangle.draw                                                           *)
(***************************************************************************)
\* the three swaps; y0, y1, y2 are read once, before the first swap
SortPoints(tri) ==
  LET y0 == tri.pt0.y
      y1 == tri.pt1.y
      y2 == tri.pt2.y
      a == IF y1 < y0 THEN <<tri.pt1, tri.pt0, tri.pt2>> ELSE <<tri.pt0, tri.pt1, tri.pt2>>
      b == IF y2 < y0 THEN <<a[3], a[2], a[1]>> ELSE a
  IN IF y2 < y1 THEN <<b[1], b[3], b[2]>> ELSE b

\* the calls of the inner loop of one scanline
RowPixels(xl, xr, y) ==
  IF xr < xl THEN <<>> ELSE [k \in 1..(xr - xl + 1) |-> Point(xl + k - 1, y)]

\* the scanlines y0 + i, y0 + i + 1, ... up to row index n - 1
RECURSIVE ScanPixels(_, _, _, _, _)
ScanPixels(x_left, x_right, y0, i, n) ==
  IF i >= n THEN <<>>
  ELSE RowPixels(x_left[i + 1], x_right[i + 1], y0 + i)
       \o ScanPixels(x_left, x_right, y0, i + 1, n)

Min(a, b) == IF a < b THEN a ELSE b

\* the left and right boundaries chosen at the midpoint row
Boundaries(s, x012, x02) ==
  LET m == Len(x012) \div 2
      indexOK == m < Len(x02) /\ m < Len(x012)
      swap == indexOK /\ x02[m + 1] < x012[m + 1]
  IN [pts |-> s, y0 |-> s[1].y, y2 |-> s[3].y, x012 |-> x012, x02 |-> x02, m |-> m,
      indexOK |-> indexOK,
      x_left |-> IF swap THEN x02 ELSE x012,
      x_right |-> IF swap THEN x012 ELSE x02]

\* x01[:len(x01)-1] panics on an empty x01
Concatenate(s, x01, x12, x02) ==
  IF Len(x01) = 0
    THEN [Boundaries(s, <<>>, x02) EXCEPT !.indexOK = FALSE]
  ELSE Only({Boundaries(s, x012, x02) : x012 \in {SubSeq(x01, 1, Len(x01) - 1) \o x12}})

Interpolated(s) ==
  Only({Concatenate(s, x01, x12, x02) :
          x01 \in {interpolate(s[1].y, s[1].x, s[2].y, s[2].x)},
          x12 \in {interpolate(s[2].y, s[2].x, s[3].y, s[3].x)},
          x02 \in {interpolate(s[1].y, s[1].x, s[3].y, s[3].x)}})

\* what Triangle.draw computes between the validation and the scanline loop
TriangleEdges(tri) == Only({Interpolated(s) : s \in {SortPoints(tri)}})

\* the scanline loop: a row whose index is beyond x_left or x_right panics
Scanlines(tri, d, e) ==
  LET rows == IF e.y2 < e.y0 THEN 0 ELSE e.y2 - e.y0 + 1
      good == Min(rows, Min(Len(e.x_left), Len(e.x_right)))
  IN Only({Result(nil, DrawFrom(d, px, tri.c, 1, FALSE).d, good < rows, px) :
             px \in {ScanPixels(e.x_left, e.x_right, e.y0, 0, good)}})

TriangleDraw(tri, d) ==
  IF outOfBounds(tri.pt0, d) \/ outOfBounds(tri.pt1, d) \/ outOfBounds(tri.pt2, d)
    THEN Result(errOutOfBounds, d, FALSE, <<>>)
  ELSE IF colorUnknown(tri.c) THEN Result(invalidColor, d, FALSE, <<>>)
  ELSE Only({IF e.indexOK THEN Scanlines(tri, d, e) ELSE Result(nil, d, TRUE, <<>>) :
              e \in {TriangleEdges(tri)}})

(***************************************************************************)
(* Circle.draw                                                             *)
(***************************************************************************)
\* the least k with k * k >= n: math.Sqrt(n) <= r for an integer r iff CeilSqrt(n) <= r
CeilSqrt(n) == CHOOSE k \in 0..n : k * k >= n /\ \A j \in 0..(k - 1) : j * j < n

\* an insideCircle with a strict comparison
insideCircleStrict(center, tile, r) ==
  LET dx == center.x - tile.x
      dy == center.y - tile.y
  IN r > 0 /\ dx * dx + dy * dy < r * r

insideCircle(center, tile, r) ==
  LET dx == center.x - tile.x
      dy == center.y - tile.y
  IN CeilSqrt(dx * dx + dy * dy) <= r

\* the candidates of the nested loops from row y, column x on, that pass both tests
RECURSIVE CirclePixels(_, _, _, _)
CirclePixels(c, d, y, x) ==
  IF y > c.center.y + c.r THEN <<>>
  ELSE IF x > c.center.x + c.r THEN CirclePixels(c, d, y + 1, c.center.x - c.r)
  ELSE (IF insideCircle(c.center, Point(x, y), c.r)
           /\ x >= 0 /\ x < getMaxXY(d)[1] /\ y >= 0 /\ y < getMaxXY(d)[2]
        THEN <<Point(x, y)>> ELSE <<>>)
       \o CirclePixels(c, d, y, x + 1)

CircleDraw(c, d) ==
  LET maxX == getMaxXY(d)[1]
      maxY == getMaxXY(d)[2]
  IN IF c.center.x - c.r < 0 \/ c.center.y - c.r < 0
        \/ c.center.x + c.r >= maxX \/ c.center.y + c.r >= maxY
       THEN Result(errOutOfBounds, d, FALSE, <<>>)
     ELSE IF colorUnknown(c.c) THEN Result(invalidColor, d, FALSE, <<>>)
     ELSE Only({Result(nil, DrawFrom(d, px, c.c, 1, FALSE).d, FALSE, px) :
                 px \in {CirclePixels(c, d, c.center.y - c.r, c.center.x - c.r)}})

(***************************************************************************)
(* The state.  maxX, maxY and matrix are the fields of the Display and     *)
(* file is the file the last screenShot left.  The rest is history: size   *)
(* is what initialize was called with; last is the last operation (name,   *)
(* arguments, error returned, whether it panicked, its drawPixel calls)    *)
(* and prev the matrix before it; written holds, while only drawPixel has  *)
(* written since initialize or the last clearScreen (only), the colour of  *)
(* the last successful drawPixel on each cell; nops counts the operations. *)
(* With recording off, last keeps only the name, the error and the panic,  *)
(* and prev nothing.                                                       *)
(***************************************************************************)
VARIABLES maxX, maxY, matrix, file, size, last, prev, written, nops, recording

vars == <<maxX, maxY, matrix, file, size, last, prev, written, nops, recording>>

Display == [maxX |-> maxX, maxY |-> maxY, matrix |-> matrix]

NoArgs == [none |-> TRUE]

Op(name, args, err, panic, calls) ==
  [op |-> name, args |-> args, err |-> err, panic |-> panic, calls |-> calls]

Blank(x, y) == [i \in 0..(x - 1) |-> [j \in 0..(y - 1) |-> "white"]]

\* written after a drawPixel(x, y, c) call that returned err
Written(w, x, y, c, err) ==
  IF w.only /\ err = nil THEN [w EXCEPT !.cells[x][y] = c] ELSE w

NotOnly == [only |-> FALSE, cells |-> <<>>]

(***************************************************************************)
(* Inputs.  Coordinates are drawn from the canvas and one column or row    *)
(* beyond each of its four edges; colour names from two palette names and  *)
(* one that is no key.                                                     *)
(***************************************************************************)
Names == {"white", "red", "pink"}

Inside == {Point(x, y) : x \in 0..(maxX - 1), y \in 0..(maxY - 1)}

Outside == {Point(-1, 0), Point(maxX, 0), Point(0, -1), Point(0, maxY)}

Points == Inside \cup Outside

Radii == (-1)..MaxR

Rectangles == {[ll |-> a, ur |-> b, c |-> c] : a \in Points, b \in Points, c \in Names}

Triangles ==
  {[pt0 |-> a, pt1 |-> b, pt2 |-> c, c |-> n] :
     a \in Points, b \in Points, c \in Points, n \in Names}

Circles == {[center |-> a, r |-> r, c |-> c] : a \in Points, r \in Radii, c \in Names}

FailPoints == 0..(Len(Writes(Display)) + 1)

(***************************************************************************)
(* The operations.  Each records itself in last and prev.                  *)
(***************************************************************************)
Done(name, args, err, d, panic, calls) ==
  /\ maxX' = d.maxX
  /\ maxY' = d.maxY
  /\ matrix' = d.matrix
  /\ last' = IF recording THEN Op(name, args, err, panic, calls)
             ELSE Op(name, NoArgs, err, panic, <<>>)
  /\ prev' = IF recording THEN matrix ELSE d.matrix
  /\ nops' = nops + 1
  /\ size' = size
  /\ recording' = recording

DrawPixel(x, y, c) ==
  /\ \E r \in {drawPixel(Display, x, y, c)} :
       /\ Done("drawPixel", [x |-> x, y |-> y, c |-> c], r.err, r.d, FALSE, <<>>)
       /\ written' = Written(written, x, y, c, r.err)
  /\ file' = file

DrawRectangle(r) ==
  /\ \E res \in {RectangleDraw(r, Display)} :
       Done("Rectangle", r, res.err, res.d, res.panic, res.calls)
  /\ written' = NotOnly
  /\ file' = file

DrawTriangle(tri) ==
  /\ \E res \in {TriangleDraw(tri, Display)} :
       Done("Triangle", tri, res.err, res.d, res.panic, res.calls)
  /\ written' = NotOnly
  /\ file' = file

DrawCircle(c) ==
  /\ \E res \in {CircleDraw(c, Display)} :
       Done("Circle", c, res.err, res.d, res.panic, res.calls)
  /\ written' = NotOnly
  /\ file' = file

ClearScreen ==
  /\ Done("clearScreen", NoArgs, nil, clearScreen(Display), FALSE, <<>>)
  /\ written' = [only |-> TRUE, cells |-> Blank(size[1], size[2])]
  /\ file' = file

ScreenShot(failAt) ==
  /\ \E r \in {screenShot(Display, failAt)} :
       /\ Done("screenShot", [failAt |-> failAt], r.err, Display, FALSE, <<>>)
       /\ file' = r.file
  /\ written' = written

(***************************************************************************)
(* Spec: one operation, on a canvas that initialize and one drawPixel have *)
(* left.                                                                   *)
(***************************************************************************)
Initialized(x, y) ==
  /\ maxX = initialize(x, y).maxX
  /\ maxY = initialize(x, y).maxY
  /\ matrix = initialize(x, y).matrix
  /\ size = <<x, y>>
  /\ file = NoFile
  /\ last = Op("initialize", NoArgs, nil, FALSE, <<>>)
  /\ prev = matrix
  /\ written = [only |-> TRUE, cells |-> Blank(x, y)]
  /\ nops = 0

Init ==
  \E x \in 1..MaxX, y \in 1..MaxY :
   \E px \in 0..(x - 1), py \in 0..(y - 1), c \in {"white", "red"} :
    /\ maxX = x
    /\ maxY = y
    /\ matrix = drawPixel(initialize(x, y), px, py, c).d.matrix
    /\ size = <<x, y>>
    /\ file = NoFile
    /\ last = Op("initialize", NoArgs, nil, FALSE, <<>>)
    /\ prev = matrix
    /\ written = [only |-> TRUE,
                  cells |-> IF c \in DOMAIN ColorMap
                            THEN [Blank(x, y) EXCEPT ![px][py] = c] ELSE Blank(x, y)]
    /\ nops = 0
    /\ recording = TRUE

\* the inputs of an operation while the guard g holds
When(g, S) == IF g THEN S ELSE {}

Next ==
  \/ \E p \in When(nops = 0, Points), c \in Names : DrawPixel(p.x, p.y, c)
  \/ \E r \in When(nops = 0, Rectangles) : DrawRectangle(r)
  \/ \E tri \in When(nops = 0, Triangles) : DrawTriangle(tri)
  \/ \E c \in When(nops = 0, Circles) : DrawCircle(c)
  \/ nops = 0 /\ ClearScreen
  \/ \E failAt \in When(nops = 0, FailPoints) : ScreenShot(failAt)

Spec == Init /\ [][Next]_vars

(***************************************************************************)
(* SpecPixel: up to MaxOps drawPixel and clearScreen calls after           *)
(* initialize.                                                             *)
(***************************************************************************)
InitFresh == recording = TRUE /\ \E x \in 1..MaxX, y \in 1..MaxY : Initialized(x, y)

NextPixel ==
  \/ \E p \in When(nops < MaxOps, Points), c \in Names : DrawPixel(p.x, p.y, c)
  \/ nops < MaxOps /\ ClearScreen

SpecPixel == InitFresh /\ [][NextPixel]_vars

(***************************************************************************)
(* SpecSeq: up to MaxOps operations of any kind after initialize, until    *)
(* one panics, without recording.  The points are two opposite corners    *)
(* and the middle of the canvas and one point outside it; a screenshot     *)
(* fails at os.Create, at its first write, or not at all.                  *)
(***************************************************************************)
SeqPoints ==
  {Point(0, 0), Point(maxX - 1, maxY - 1), Point(maxX \div 2, maxY \div 2),
   Point(maxX, 0)}

SeqRectangles == {r \in Rectangles : r.ll \in SeqPoints /\ r.ur \in SeqPoints}

SeqTriangles ==
  {t \in Triangles : t.pt0 \in SeqPoints /\ t.pt1 \in SeqPoints /\ t.pt2 \in SeqPoints}

SeqCircles == {c \in Circles : c.center \in SeqPoints}

SeqFailPoints == {0, 1, Len(Writes(Display)) + 1}

InitSeq == recording = FALSE /\ \E x \in 1..MaxX, y \in 1..MaxY : Initialized(x, y)

Running == nops < MaxOps /\ ~last.panic

NextSeq ==
  \/ \E p \in When(Running, SeqPoints), c \in Names : DrawPixel(p.x, p.y, c)
  \/ \E r \in When(Running, SeqRectangles) : DrawRectangle(r)
  \/ \E tri \in When(Running, SeqTriangles) : DrawTriangle(tri)
  \/ \E c \in When(Running, SeqCircles) : DrawCircle(c)
  \/ Running /\ ClearScreen
  \/ \E failAt \in When(Running, SeqFailPoints) : ScreenShot(failAt)

SpecSeq == InitSeq /\ [][NextSeq]_vars

(***************************************************************************)
(* Properties.  Under Spec and SpecPixel, last and prev describe the       *)
(* operation that led to the state.                                        *)
(***************************************************************************)
Before == [maxX |-> maxX, maxY |-> maxY, matrix |-> prev]

\* the cells the drawPixel calls of the last operation addressed
Painted == {last.calls[k] : k \in DOMAIN last.calls}

InBounds(p) == p.x >= 0 /\ p.x < size[1] /\ p.y >= 0 /\ p.y < size[2]

Pixel(d, p) == getPixel(d, p.x, p.y)

Kept(p) == Pixel(Display, p) = Pixel(Before, p)

Filled(p, c) == Pixel(Display, p) = [c |-> c, err |-> nil]

ValidRectangle ==
  /\ last.op = "Rectangle"
  /\ InBounds(last.args.ll) /\ InBounds(last.args.ur)
  /\ last.args.c \in DOMAIN ColorMap

InRectangle(p, r) == r.ll.x <= p.x /\ p.x < r.ur.x /\ r.ll.y <= p.y /\ p.y < r.ur.y

\* C1: a rectangle with both corners inside the canvas and a palette colour
\* draws without error; afterwards exactly the cells with ll.x <= x < ur.x and
\* ll.y <= y < ur.y read back the fill colour and every other cell reads what
\* it read before (so an empty rectangle changes nothing).
C1_RectangleRegion ==
  ValidRectangle =>
    /\ last.err = nil
    /\ ~last.panic
    /\ \A p \in Inside :
         IF InRectangle(p, last.args) THEN Filled(p, last.args.c) ELSE Kept(p)
    /\ (last.args.ur.x <= last.args.ll.x \/ last.args.ur.y <= last.args.ll.y)
         => matrix = prev

\* a red rectangle that covers white cells and leaves a red cell outside it
C1_Witness ==
  /\ ValidRectangle
  /\ last.args.c = "red"
  /\ \E p \in Inside : InRectangle(p, last.args) /\ prev[p.x][p.y] = "white"
  /\ \E p \in Inside : ~InRectangle(p, last.args) /\ prev[p.x][p.y] = "red"

ValidTriangle ==
  /\ last.op = "Triangle"
  /\ InBounds(last.args.pt0) /\ InBounds(last.args.pt1) /\ InBounds(last.args.pt2)
  /\ last.args.c \in DOMAIN ColorMap

IsInterval(S) == \A a \in S, b \in S : \A k \in a..b : k \in S

MinOf(S) == CHOOSE v \in S : \A w \in S : v <= w

MaxOf(S) == CHOOSE v \in S : \A w \in S : w <= v

\* C2: after drawing a triangle with its vertices inside the canvas and a
\* palette colour, each vertex cell holds the fill colour, and in every row
\* between the least and the greatest vertex y the columns this draw painted
\* form one contiguous interval.
C2_VerticesAndRows ==
  ValidTriangle =>
    LET t == last.args
        ys == {t.pt0.y, t.pt1.y, t.pt2.y}
    IN /\ Filled(t.pt0, t.c) /\ Filled(t.pt1, t.c) /\ Filled(t.pt2, t.c)
       /\ \A y \in MinOf(ys)..MaxOf(ys) :
            IsInterval({p.x : p \in {q \in Painted : q.y = y}})

ValidCircle ==
  /\ last.op = "Circle"
  /\ last.args.center.x - last.args.r >= 0
  /\ last.args.center.y - last.args.r >= 0
  /\ last.args.center.x + last.args.r < size[1]
  /\ last.args.center.y + last.args.r < size[2]
  /\ last.args.c \in DOMAIN ColorMap

SquaredDistance(p, q) == (p.x - q.x) * (p.x - q.x) + (p.y - q.y) * (p.y - q.y)

DefiningPoints ==
  IF last.op = "Rectangle" THEN {last.args.ll, last.args.ur}
  ELSE IF last.op = "Triangle" THEN {last.args.pt0, last.args.pt1, last.args.pt2}
  ELSE IF last.op = "Circle"
    THEN LET c == last.args.center
             r == last.args.r
         IN {c, Point(c.x - r, c.y), Point(c.x + r, c.y),
             Point(c.x, c.y - r), Point(c.x, c.y + r)}
  ELSE {}

GeometryOutside == \E p \in DefiningPoints : ~InBounds(p)

\* C4: a shape with a defining point (a rectangle corner, a triangle vertex,
\* a circle's centre or its extent centre +/- radius) outside the canvas is
\* refused with the OutOfBounds error and changes no cell.
C4_OutsideRefused ==
  GeometryOutside => last.err = errOutOfBounds /\ ~last.panic /\ matrix = prev

IsShape == last.op \in {"Rectangle", "Triangle", "Circle"}

\* C5: a shape whose colour is no palette name changes no cell; it returns
\* InvalidColor when its geometry is in bounds and OutOfBounds when its
\* geometry is out of bounds too.
C5_UnknownColourRefused ==
  (IsShape /\ last.args.c \notin DOMAIN ColorMap) =>
    /\ matrix = prev
    /\ ~last.panic
    /\ last.err = IF GeometryOutside THEN errOutOfBounds ELSE invalidColor

\* C9: the three swaps leave the vertices of any triangle, whatever the
\* order and the ties of their y coordinates, as a permutation of the input
\* ordered so that pt0.y <= pt1.y <= pt2.y.
C9_SwapsSort ==
  ValidTriangle =>
    LET t == last.args
        s == SortPoints(t)
    IN /\ s[1].y <= s[2].y /\ s[2].y <= s[3].y
       /\ \E f \in [1..3 -> 1..3] :
            /\ \A i \in 1..3, j \in 1..3 : i # j => f[i] # f[j]
            /\ \A i \in 1..3 : s[i] = <<t.pt0, t.pt1, t.pt2>>[f[i]]

\* C10: drawing a triangle with its vertices inside the canvas and a palette
\* colour returns normally; x012 and x02 both have y2 - y0 + 1 elements, so
\* the midpoint index and every row index are within both, and every pixel
\* write is inside the canvas.
C10_TriangleCompletes ==
  ValidTriangle =>
    LET e == TriangleEdges(last.args)
    IN /\ ~last.panic
       /\ last.err = nil
       /\ Len(e.x012) = e.y2 - e.y0 + 1
       /\ Len(e.x02) = e.y2 - e.y0 + 1
       /\ e.m < Len(e.x012) /\ e.m < Len(e.x02)
       /\ \A p \in Painted : InBounds(p)

\* C6: drawPixel(x, y, c) returns OutOfBounds for a cell outside the canvas,
\* otherwise InvalidColor for a colour that is no palette name, and leaves
\* every cell unchanged in both cases; otherwise it changes the cell (x, y)
\* and no other.  While only drawPixel has written since initialize or the
\* last clearScreen, getPixel returns for every cell the colour of the most
\* recent successful drawPixel on it, or white if there was none.
C6_LastWriteWins ==
  /\ last.op = "drawPixel" =>
       LET a == last.args
       IN IF a.x < 0 \/ a.x >= size[1] \/ a.y < 0 \/ a.y >= size[2]
            THEN last.err = errOutOfBounds /\ matrix = prev
          ELSE IF a.c \notin DOMAIN ColorMap
            THEN last.err = invalidColor /\ matrix = prev
          ELSE /\ last.err = nil
               /\ \A p \in Inside : IF p = Point(a.x, a.y) THEN Filled(p, a.c) ELSE Kept(p)
  /\ written.only =>
       \A p \in Inside : Pixel(Display, p) = [c |-> written.cells[p.x][p.y], err |-> nil]

\* a second successful write to a cell, with another colour than the first
C6_Witness ==
  /\ last.op = "drawPixel"
  /\ last.err = nil
  /\ nops = 2
  /\ written.only
  /\ prev[last.args.x][last.args.y] = "red"
  /\ last.args.c = "white"

\* C7: in every state reached from initialize by drawPixel, shape draws,
\* clearScreen and screenShot calls, every cell of the grid holds a palette
\* name (white after initialize and after clearScreen), getMaxXY returns the
\* dimensions initialize was given, and getPixel on a cell of the canvas
\* never returns InvalidColor.
C7_CellsArePaletteNames ==
  /\ getMaxXY(Display) = size
  /\ DOMAIN matrix = 0..(size[1] - 1)
  /\ \A x \in 0..(size[1] - 1) :
       /\ DOMAIN matrix[x] = 0..(size[2] - 1)
       /\ \A y \in 0..(size[2] - 1) :
            /\ matrix[x][y] \in DOMAIN ColorMap
            /\ getPixel(Display, x, y).err # invalidColor
            /\ last.op \in {"initialize", "clearScreen"} => matrix[x][y] = "white"

\* a shape refused for its colour on a canvas that earlier operations painted
C7_Witness ==
  /\ recording = FALSE
  /\ nops >= 2
  /\ last.op \in {"Rectangle", "Triangle", "Circle"}
  /\ last.err = invalidColor
  /\ \E x \in DOMAIN matrix : \E y \in DOMAIN matrix[x] : matrix[x][y] = "red"

\* the lines of a file: its tokens between the line ends, from token i on
RECURSIVE SplitLines(_, _, _)
SplitLines(toks, i, cur) ==
  IF i > Len(toks) THEN <<cur>>
  ELSE IF toks[i] = "\n" THEN <<cur>> \o SplitLines(toks, i + 1, <<>>)
  ELSE SplitLines(toks, i + 1, Append(cur, toks[i]))

\* the triple of the palette colour named n, as the tokens of a line
Triple(n) ==
  <<ToString(ColorMap[n][1]), " ", ToString(ColorMap[n][2]), " ", ToString(ColorMap[n][3])>>

\* C8: a successful screenShot leaves the lines P3, "width height", 255, then
\* exactly height lines of exactly width triples separated by single spaces,
\* the triple at line y, column x being the palette RGB of the cell (x, y);
\* it does not change the canvas, and a white canvas gives 255 255 255 only.
C8_ScreenShotFormat ==
  (last.op = "screenShot" /\ last.err = nil) =>
    LET lines == SplitLines(file, 1, <<>>)
    IN /\ matrix = prev
       /\ Len(lines) = size[2] + 4
       /\ lines[1] = <<"P3">>
       /\ lines[2] = <<ToString(size[1]), " ", ToString(size[2])>>
       /\ lines[3] = <<"255">>
       /\ lines[size[2] + 4] = <<>>
       /\ \A y \in 0..(size[2] - 1) :
            /\ Len(lines[y + 4]) = 6 * size[1] - 1
            /\ \A x \in 0..(size[1] - 1) :
                 /\ SubSeq(lines[y + 4], 6 * x + 1, 6 * x + 5) = Triple(matrix[x][y])
                 /\ x > 0 => lines[y + 4][6 * x] = " "
                 /\ (\A p \in Inside : matrix[p.x][p.y] = "white")
                      => SubSeq(lines[y + 4], 6 * x + 1, 6 * x + 5)
                           = <<"255", " ", "255", " ", "255">>

\* a screenshot of a canvas that is not square, with a red cell off the diagonal
C8_Witness ==
  /\ last.op = "screenShot"
  /\ last.err = nil
  /\ size[1] # size[2]
  /\ \E p \in Inside : p.x # p.y /\ matrix[p.x][p.y] = "red"

=============================================================================
